---- MODULE Spec2Model ----
(***************************************************************************)
(* aw-inbox: the notes / note_relations store of src/src/db.rs behind the  *)
(* single shared connection mutex of src/src/lib.rs.                       *)
(*                                                                         *)
(* One request thread at a time holds the mutex (lib.rs SharedDb) and runs *)
(* the SQL statements of one db function, one statement per step.          *)
(***************************************************************************)
EXTENDS Integers, Sequences, FiniteSets, TLC

\* ------------------------------------------------------------------ bounds
NumThreads == 2
MaxNotes == 2
MaxRelations == 1
MaxClock == 1

Threads == 1..NumThreads
NoThread == 0

\* ------------------------------------------------------------------ inputs
\* A String is a sequence of one-character strings.
QUOTE == "\""
BACKSLASH == "\\"
TagX == <<"x">>
TagY == <<"y">>
TagQ == <<"q", QUOTE, BACKSLASH>>

NoneOpt == [some |-> FALSE, val |-> <<>>]
Some(v) == [some |-> TRUE, val |-> v]
NoneTime == [some |-> FALSE, val |-> 0]
NoneInt == [some |-> FALSE, val |-> 0]

\* Option<Vec<String>> payloads offered to create / update / addComment.
TagInputs == {NoneOpt, Some(<<TagX>>)}
\* The richer payloads of the round-trip specification.
RoundTripTagInputs ==
    {NoneOpt, Some(<<>>), Some(<<TagY, TagX>>), Some(<<TagX, TagX>>), Some(<<TagQ>>)}
Contents == {"a"}
\* Option<DateTime<Utc>> payloads of create: absent, or any instant of the model.
CreatedAtInputs == {NoneTime} \cup {[some |-> TRUE, val |-> k] : k \in 0..MaxClock}
RoundTripContents == {"a", ""}
UpdateContents == {"b"}
TagXYZ == <<"x", "y", "z">>
MaxListedRelations == MaxRelations + 1
MaxCommentNotes == MaxNotes + 1
ListedTypes == {"Comment", "Link"}
ListedEnds == {1, 2}
TypeFilters == {NoneOpt, Some("Comment"), Some("Link")}
AtZero == [some |-> TRUE, val |-> 0]
TimeFilters == {NoneTime} \cup {[some |-> TRUE, val |-> k] : k \in 0..(MaxClock + 1)}
LimitInputs == {NoneInt} \cup {[some |-> TRUE, val |-> k] : k \in (0 - 1)..MaxNotes}
TagSetInputs == {NoneOpt, Some(<<>>), Some(<<TagY, TagX>>), Some(<<TagX, TagX>>)}
ListTagInputs == {Some(<<TagX>>), Some(<<TagXYZ>>), Some(<<TagY, TagX>>)}
ListTagFilters == {Some(TagX), Some(<<"X">>), Some(<<"_">>), Some(TagXYZ), Some(TagY)}
RelationTypes == {"Comment", "Reference", "Link"}
LegacyTags == {<<"[">>, <<QUOTE, "x", QUOTE>>, <<"[", "1", "]">>,
               <<"[", QUOTE, "x", QUOTE, ",", "1", "]">>}

\* ------------------------------------------------------------------ serde_json
EscapeNothing(s) == s
RECURSIVE EscapeStr(_)
EscapeStr(s) ==
    IF s = <<>> THEN <<>>
    ELSE LET c == Head(s)
         IN (IF c = QUOTE \/ c = BACKSLASH THEN <<BACKSLASH, c>> ELSE <<c>>)
            \o EscapeStr(Tail(s))

JsonString(s) == <<QUOTE>> \o EscapeStr(s) \o <<QUOTE>>

RECURSIVE JsonItems(_)
JsonItems(v) ==
    IF v = <<>> THEN <<>>
    ELSE IF Len(v) = 1 THEN JsonString(v[1])
    ELSE JsonString(v[1]) \o <<",">> \o JsonItems(Tail(v))

\* serde_json::to_string(&Vec<String>)
ToJson(v) == <<"[">> \o JsonItems(v) \o <<"]">>

ParseFail == [ok |-> FALSE, val |-> <<>>, next |-> 0]

\* Reads the body of a JSON string from position i (after the opening quote);
\* acc is the unescaped text so far.
RECURSIVE ParseStringBody(_, _, _)
ParseStringBody(txt, i, acc) ==
    IF i > Len(txt) THEN ParseFail
    ELSE IF txt[i] = QUOTE THEN [ok |-> TRUE, val |-> acc, next |-> i + 1]
    ELSE IF txt[i] = BACKSLASH
         THEN IF i + 1 > Len(txt) THEN ParseFail
              ELSE IF txt[i + 1] = QUOTE \/ txt[i + 1] = BACKSLASH
                   THEN ParseStringBody(txt, i + 2, Append(acc, txt[i + 1]))
                   ELSE ParseFail
    ELSE ParseStringBody(txt, i + 1, Append(acc, txt[i]))

ParseString(txt, i) ==
    IF i > Len(txt) \/ txt[i] # QUOTE THEN ParseFail
    ELSE ParseStringBody(txt, i + 1, <<>>)

\* Reads the elements of a JSON array from position i (an element is due).
RECURSIVE ParseElements(_, _, _)
ParseElements(txt, i, acc) ==
    LET s == ParseString(txt, i)
    IN IF ~s.ok THEN ParseFail
       ELSE IF s.next > Len(txt) THEN ParseFail
       ELSE IF txt[s.next] = "," THEN ParseElements(txt, s.next + 1, Append(acc, s.val))
       ELSE IF txt[s.next] = "]" /\ s.next = Len(txt)
            THEN [ok |-> TRUE, val |-> Append(acc, s.val), next |-> s.next + 1]
       ELSE ParseFail

\* serde_json::from_str::<Vec<String>>
FromJson(txt) ==
    IF Len(txt) < 2 \/ txt[1] # "[" THEN ParseFail
    ELSE IF txt[2] = "]" THEN (IF Len(txt) = 2 THEN [ok |-> TRUE, val |-> <<>>, next |-> 3]
                               ELSE ParseFail)
    ELSE ParseElements(txt, 2, <<>>)

\* SQLite's JSON functions, over the texts a tags column is given here: a
\* string, a one-digit number, or an array of those.
JsonFail == [ok |-> FALSE, type |-> "", elems |-> <<>>, next |-> 0]

JsonScalarAt(txt, i) ==
    IF i > Len(txt) THEN JsonFail
    ELSE IF txt[i] = QUOTE
         THEN LET s == ParseString(txt, i)
              IN IF s.ok THEN [ok |-> TRUE, type |-> "text", elems |-> s.val,
                               next |-> s.next]
                 ELSE JsonFail
    ELSE IF txt[i] \in {"0", "1"}
         THEN [ok |-> TRUE, type |-> "integer", elems |-> <<txt[i]>>, next |-> i + 1]
    ELSE JsonFail

RECURSIVE JsonEachAt(_, _, _)
JsonEachAt(txt, i, acc) ==
    LET v == JsonScalarAt(txt, i)
        e == [type |-> v.type, value |-> v.elems]
    IN IF ~v.ok THEN JsonFail
       ELSE IF v.next > Len(txt) THEN JsonFail
       ELSE IF txt[v.next] = "," THEN JsonEachAt(txt, v.next + 1, Append(acc, e))
       ELSE IF txt[v.next] = "]" /\ v.next = Len(txt)
            THEN [ok |-> TRUE, type |-> "array", elems |-> Append(acc, e),
                  next |-> v.next + 1]
       ELSE JsonFail

JsonParse(txt) ==
    IF txt = <<>> THEN JsonFail
    ELSE IF txt[1] = "["
         THEN IF Len(txt) >= 2 /\ txt[2] = "]"
              THEN (IF Len(txt) = 2
                    THEN [ok |-> TRUE, type |-> "array", elems |-> <<>>, next |-> 3]
                    ELSE JsonFail)
              ELSE JsonEachAt(txt, 2, <<>>)
    ELSE LET v == JsonScalarAt(txt, 1)
         IN IF v.ok /\ v.next = Len(txt) + 1 THEN v ELSE JsonFail

json_valid(txt) == JsonParse(txt).ok
json_type(txt) == JsonParse(txt).type
\* json_each(txt): one row per element of the array, with its type and value.
json_each(txt) == JsonParse(txt).elems

unwrap_or_blank(o) == IF o.some THEN o.val ELSE <<<<>>>>
unwrap_or_default(o) == IF o.some THEN o.val ELSE <<>>


\* ------------------------------------------------------------------ state
VARIABLES
    notes,            \* table notes: id -> row, as the connection sees it
    note_relations,   \* table note_relations: id -> row
    sqlite_sequence,  \* AUTOINCREMENT counters of both tables
    snapshot,         \* the state a ROLLBACK restores while a transaction is open
    mutex,            \* holder of the SharedDb mutex, NoThread when free
    pc,               \* each request thread's position
    args,             \* each request's parameters
    local,            \* each db call's local variables
    result,           \* each db call's result and the handler's HTTP status
    pre,              \* the tables as they were when the request took the mutex
    clock,            \* Utc::now()
    deleted,          \* history: ids whose note a delete has removed
    comments          \* history: (note, relation) pairs committed by add_comment_db

vars == <<notes, note_relations, sqlite_sequence, snapshot, mutex, pc, args, local,
          result, pre, clock, deleted, comments>>

NoteIds == 1..(MaxNotes + 1)
EmptyTable == [i \in {} |-> 0]
Put(tbl, id, row) == [i \in DOMAIN tbl \cup {id} |-> IF i = id THEN row ELSE tbl[i]]
Remove(tbl, ids) == [i \in DOMAIN tbl \ ids |-> tbl[i]]

NoTx == [open |-> FALSE, notes |-> EmptyTable, note_relations |-> EmptyTable,
         sqlite_sequence |-> [notes |-> 0, note_relations |-> 0]]
NoArgs == [op |-> "none", note_id |-> 0, target_id |-> 0, content |-> "",
           tags |-> NoneOpt, relation_type |-> "", created_at |-> NoneTime,
           limit |-> NoneInt, tag |-> NoneOpt, created_after |-> NoneTime,
           created_before |-> NoneTime, type_filter |-> NoneOpt]
NoLocal == [source_exists |-> FALSE, target_exists |-> FALSE, id |-> 0,
            relation_id |-> 0, tags_json |-> <<>>, created_at |-> 0,
            updated_at |-> 0]
NoPre == [notes |-> EmptyTable, note_relations |-> EmptyTable]

DbOk(v) == [ok |-> TRUE, err |-> "", value |-> v]
DbErr(e) == [ok |-> FALSE, err |-> e, value |-> <<>>]
NoResult == [db |-> DbErr("none"), http |-> "none"]

\* What another reader is entitled to see: the tables as of the last commit.
Committed ==
    IF snapshot.open
    THEN [notes |-> snapshot.notes, note_relations |-> snapshot.note_relations]
    ELSE [notes |-> notes, note_relations |-> note_relations]

Init ==
    /\ notes = EmptyTable
    /\ note_relations = EmptyTable
    /\ sqlite_sequence = [notes |-> 0, note_relations |-> 0]
    /\ snapshot = NoTx
    /\ mutex = NoThread
    /\ pc = [t \in Threads |-> "idle"]
    /\ args = [t \in Threads |-> NoArgs]
    /\ local = [t \in Threads |-> NoLocal]
    /\ result = [t \in Threads |-> NoResult]
    /\ pre = [t \in Threads |-> NoPre]
    /\ clock = 0
    /\ deleted = {}
    /\ comments = {}

\* ------------------------------------------------------------------ lib.rs
\* handle_db_error: the HTTP status of a rusqlite error.
handle_db_error_no_rows_arm(e) ==
    IF e = "no such table" THEN "BadRequest" ELSE "InternalServerError"
handle_db_error(e) ==
    IF e = "no such table" THEN "BadRequest"
    ELSE IF e = "QueryReturnedNoRows" THEN "NotFound"
    ELSE "InternalServerError"

\* The status a handler answers with, from its db call's result.
HandlerStatusNoneArmOk(op, r) ==
    IF ~r.ok THEN handle_db_error(r.err)
    ELSE IF op \in {"create_note", "add_comment", "create_relation"} THEN "Created"
    ELSE IF op = "get_note" THEN (IF r.value.some THEN "Ok" ELSE "NotFound")
    ELSE IF op = "delete_note" THEN (IF r.value THEN "NoContent" ELSE "NotFound")
    ELSE "Ok"
HandlerStatus(op, r) ==
    IF ~r.ok THEN handle_db_error(r.err)
    ELSE IF op \in {"create_note", "add_comment", "create_relation"} THEN "Created"
    ELSE IF op \in {"get_note", "update_note"}
         THEN (IF r.value.some THEN "Ok" ELSE "NotFound")
    ELSE IF op = "delete_note" THEN (IF r.value THEN "NoContent" ELSE "NotFound")
    ELSE "Ok"

\* db_arc.lock(): blocks until the mutex is free.
LockNoMutex(t) == mutex' = t
Lock(t) == mutex = NoThread /\ mutex' = t

\* A handler's spawn_blocking closure starts: take the mutex, enter the db call.
Acquire(t, a, label) ==
    /\ pc[t] = "idle"
    /\ Lock(t)
    /\ pc' = [pc EXCEPT ![t] = label]
    /\ args' = [args EXCEPT ![t] = a]
    /\ local' = [local EXCEPT ![t] = NoLocal]
    /\ result' = [result EXCEPT ![t] = NoResult]
    /\ pre' = [pre EXCEPT ![t] = [notes |-> notes, note_relations |-> note_relations]]
    /\ UNCHANGED <<notes, note_relations, sqlite_sequence, snapshot, clock, deleted,
                   comments>>

\* The db call returns r: the closure maps it and ends.
Finish(t, r) ==
    /\ pc' = [pc EXCEPT ![t] = "done"]
    /\ result' = [result EXCEPT ![t] = [db |-> r, http |-> HandlerStatus(args[t].op, r)]]

\* The closure's guard is dropped and the handler answers.
Return(t) ==
    /\ pc[t] = "done"
    /\ mutex' = IF mutex = t THEN NoThread ELSE mutex
    /\ pc' = [pc EXCEPT ![t] = "idle"]
    /\ args' = [args EXCEPT ![t] = NoArgs]
    /\ local' = [local EXCEPT ![t] = NoLocal]
    /\ result' = [result EXCEPT ![t] = NoResult]
    /\ pre' = [pre EXCEPT ![t] = NoPre]
    /\ UNCHANGED <<notes, note_relations, sqlite_sequence, snapshot, clock, deleted,
                   comments>>

Tick ==
    /\ clock < MaxClock
    /\ clock' = clock + 1
    /\ UNCHANGED <<notes, note_relations, sqlite_sequence, snapshot, mutex, pc, args,
                   local, result, pre, deleted, comments>>

\* ------------------------------------------------------------------ db.rs rows
\* map_row_to_note
map_row_to_note(id, row) ==
    LET p == FromJson(row.tags)
    IN IF ~p.ok THEN DbErr("InvalidParameterName")
       ELSE DbOk([id |-> id, content |-> row.content, tags |-> p.val,
                  created_at |-> row.created_at, updated_at |-> row.updated_at])

\* get_note_db: Ok(Some(note)), Ok(None) or the row's mapping error.
get_note_db(N, note_id) ==
    IF note_id \notin DOMAIN N THEN DbOk(NoneOpt)
    ELSE LET r == map_row_to_note(note_id, N[note_id])
         IN IF r.ok THEN DbOk(Some(r.value)) ELSE r

\* The rusqlite error of a statement that a foreign key refuses; every other
\* statement failure is "SqliteFailure".
ConstraintViolation == "SqliteFailure: FOREIGN KEY constraint failed"

\* FOREIGN KEY (source_note_id), (target_note_id) REFERENCES notes(id)
ForeignKeyOk(N, row) ==
    row.source_note_id \in DOMAIN N /\ row.target_note_id \in DOMAIN N

\* INTEGER PRIMARY KEY AUTOINCREMENT: one more than the largest rowid ever used,
\* which sqlite_sequence records.
MaxRowidPlusOne(tbl, seq) ==
    IF DOMAIN tbl = {} THEN 1
    ELSE (CHOOSE m \in DOMAIN tbl : \A i \in DOMAIN tbl : i <= m) + 1
NextRowid(tbl, seq) == seq + 1

\* create_note_relation_db's early return: if !source_exists || !target_exists
BothMissing(source_exists, target_exists) == ~source_exists /\ ~target_exists
EndpointMissing(source_exists, target_exists) == ~source_exists \/ ~target_exists

\* create_note_relation_db's match of payload.relation_type to the stored string.
CommentAsReference(rt) == IF rt = "Link" THEN "Link" ELSE "Reference"
relation_type_lowercase(rt) ==
    CASE rt = "Comment" -> "comment"
      [] rt = "Reference" -> "reference"
      [] rt = "Link" -> "link"
relation_type_str(rt) ==
    CASE rt = "Comment" -> "Comment"
      [] rt = "Reference" -> "Reference"
      [] rt = "Link" -> "Link"

\* ... ON DELETE CASCADE, with PRAGMA foreign_keys = ON
NoCascade(R, note_id) == R
CascadeEverything(R, note_id) == EmptyTable
CascadeSourceOnly(R, note_id) ==
    Remove(R, {r \in DOMAIN R : R[r].source_note_id = note_id})
CascadeTargetOnly(R, note_id) ==
    Remove(R, {r \in DOMAIN R : R[r].target_note_id = note_id})
OnDeleteCascade(R, note_id) ==
    Remove(R, {r \in DOMAIN R : R[r].source_note_id = note_id
                                \/ R[r].target_note_id = note_id})


\* ------------------------------------------------------------------ create_note
\* lib.rs create_note: the closure takes the mutex; create_note_db evaluates
\* created_at and tags_json before it opens its transaction.
create_note_lock(t, contents, tagInputs, createdAts) ==
    /\ sqlite_sequence.notes < MaxNotes
    /\ \E c \in contents, tg \in tagInputs, ca \in createdAts :
          Acquire(t, [NoArgs EXCEPT !.op = "create_note", !.content = c, !.tags = tg,
                                    !.created_at = ca], "create_note_insert")

\* conn.transaction() and tx.execute(INSERT INTO notes ...); an error drops the
\* transaction, which rolls it back.
create_note_db_insert(t) ==
    /\ pc[t] = "create_note_insert"
    /\ LET created_at == IF args[t].created_at.some THEN args[t].created_at.val ELSE clock
           tags_json == ToJson(unwrap_or_default(args[t].tags))
           id == NextRowid(notes, sqlite_sequence.notes)
       IN \E fault \in BOOLEAN :
            IF fault
            THEN /\ Finish(t, DbErr("SqliteFailure"))
                 /\ UNCHANGED <<notes, sqlite_sequence, snapshot, local>>
            ELSE /\ snapshot' = [open |-> TRUE, notes |-> notes,
                                 note_relations |-> note_relations,
                                 sqlite_sequence |-> sqlite_sequence]
                 /\ notes' = Put(notes, id, [content |-> args[t].content,
                                             tags |-> tags_json,
                                             created_at |-> created_at,
                                             updated_at |-> created_at])
                 /\ sqlite_sequence' = [sqlite_sequence EXCEPT !.notes = id]
                 /\ local' = [local EXCEPT ![t] = [NoLocal EXCEPT !.id = id,
                                                    !.tags_json = tags_json,
                                                    !.created_at = created_at]]
                 /\ pc' = [pc EXCEPT ![t] = "create_note_commit"]
                 /\ UNCHANGED result
    /\ UNCHANGED <<note_relations, mutex, args, pre, clock, deleted, comments>>

\* tx.commit(), then the returned Note is built from the payload and the
\* re-parsed tags_json.
create_note_db_commit(t) ==
    /\ pc[t] = "create_note_commit"
    /\ snapshot' = NoTx
    /\ LET p == FromJson(local[t].tags_json)
       IN IF ~p.ok THEN Finish(t, DbErr("InvalidParameterName"))
          ELSE Finish(t, DbOk([id |-> local[t].id, content |-> args[t].content,
                               tags |-> p.val, created_at |-> local[t].created_at,
                               updated_at |-> local[t].created_at]))
    /\ UNCHANGED <<notes, note_relations, sqlite_sequence, mutex, args, local, pre,
                   clock, deleted, comments>>

\* ------------------------------------------------------------------ get_note
get_note_lock(t) ==
    \E id \in NoteIds :
        Acquire(t, [NoArgs EXCEPT !.op = "get_note", !.note_id = id], "get_note_query")

get_note_db_query(t) ==
    /\ pc[t] = "get_note_query"
    /\ Finish(t, get_note_db(notes, args[t].note_id))
    /\ UNCHANGED <<notes, note_relations, sqlite_sequence, snapshot, mutex, args, local,
                   pre, clock, deleted, comments>>

\* ------------------------------------------------------------------ update_note
update_note_lock(t, contents, tagInputs) ==
    \E id \in NoteIds, c \in contents, tg \in tagInputs :
        Acquire(t, [NoArgs EXCEPT !.op = "update_note", !.note_id = id, !.content = c,
                                  !.tags = tg], "update_note_update")

\* SET content = ?1, tags = ?2, updated_at = ?3, with
\* tags_json = serde_json::to_string(&payload.tags.unwrap_or_default()).
UpdateSetKeepTags(row, content, tags, now) ==
    [row EXCEPT !.content = content,
                !.tags = IF tags.some THEN ToJson(tags.val) ELSE row.tags,
                !.updated_at = now]
UpdateSet(row, content, tags, now) ==
    [row EXCEPT !.content = content,
                !.tags = ToJson(unwrap_or_default(tags)),
                !.updated_at = now]

\* let updated_at = Utc::now(); UPDATE notes SET content, tags, updated_at WHERE id;
\* rows_affected == 0 is Ok(None).
update_note_db_update(t) ==
    /\ pc[t] = "update_note_update"
    /\ local' = [local EXCEPT ![t].updated_at = clock]
    /\ LET id == args[t].note_id
       IN IF id \in DOMAIN notes
          THEN /\ notes' = [notes EXCEPT ![id] =
                              UpdateSet(@, args[t].content, args[t].tags, clock)]
               /\ pc' = [pc EXCEPT ![t] = "update_note_get"]
               /\ UNCHANGED result
          ELSE /\ Finish(t, DbOk(NoneOpt))
               /\ UNCHANGED notes
    /\ UNCHANGED <<note_relations, sqlite_sequence, snapshot, mutex, args, pre,
                   clock, deleted, comments>>

\* get_note_db(conn, note_id) re-reads the row.
update_note_db_get(t) ==
    /\ pc[t] = "update_note_get"
    /\ Finish(t, get_note_db(notes, args[t].note_id))
    /\ UNCHANGED <<notes, note_relations, sqlite_sequence, snapshot, mutex, args, local,
                   pre, clock, deleted, comments>>

\* ------------------------------------------------------------------ delete_note
delete_note_lock(t) ==
    \E id \in NoteIds :
        Acquire(t, [NoArgs EXCEPT !.op = "delete_note", !.note_id = id],
                "delete_note_delete")

\* DELETE FROM notes WHERE id: one statement, the foreign keys' cascade included.
delete_note_db(t) ==
    /\ pc[t] = "delete_note_delete"
    /\ LET id == args[t].note_id
           rows_affected == IF id \in DOMAIN notes THEN 1 ELSE 0
       IN /\ notes' = Remove(notes, {id})
          /\ note_relations' = IF rows_affected > 0
                               THEN OnDeleteCascade(note_relations, id)
                               ELSE note_relations
          /\ deleted' = IF rows_affected > 0 THEN deleted \cup {id} ELSE deleted
          /\ Finish(t, DbOk(rows_affected > 0))
    /\ UNCHANGED <<sqlite_sequence, snapshot, mutex, args, local, pre, clock, comments>>


\* ------------------------------------------------------------------ create_relation
create_relation_lock_upto(t, cap, ends, types) ==
    /\ sqlite_sequence.note_relations < cap
    /\ \E s \in ends, g \in ends, rt \in types :
          Acquire(t, [NoArgs EXCEPT !.op = "create_relation", !.note_id = s,
                                    !.target_id = g, !.relation_type = rt],
                  "create_relation_source")
create_relation_lock(t) ==
    create_relation_lock_upto(t, MaxRelations, NoteIds, RelationTypes)

\* SELECT 1 FROM notes WHERE id = source_note_id
create_note_relation_db_source(t) ==
    /\ pc[t] = "create_relation_source"
    /\ local' = [local EXCEPT ![t].source_exists = args[t].note_id \in DOMAIN notes]
    /\ pc' = [pc EXCEPT ![t] = "create_relation_target"]
    /\ UNCHANGED <<notes, note_relations, sqlite_sequence, snapshot, mutex, args, result,
                   pre, clock, deleted, comments>>

\* SELECT 1 FROM notes WHERE id = target_note_id, then the early return.
create_note_relation_db_target(t) ==
    /\ pc[t] = "create_relation_target"
    /\ LET target_exists == args[t].target_id \in DOMAIN notes
       IN /\ local' = [local EXCEPT ![t].target_exists = target_exists]
          /\ IF EndpointMissing(local[t].source_exists, target_exists)
             THEN Finish(t, DbErr("QueryReturnedNoRows"))
             ELSE /\ pc' = [pc EXCEPT ![t] = "create_relation_insert"]
                  /\ UNCHANGED result
    /\ UNCHANGED <<notes, note_relations, sqlite_sequence, snapshot, mutex, args, pre,
                   clock, deleted, comments>>

\* INSERT INTO note_relations ..., in autocommit; the foreign keys are checked.
create_note_relation_db_insert(t) ==
    /\ pc[t] = "create_relation_insert"
    /\ LET id == NextRowid(note_relations, sqlite_sequence.note_relations)
           row == [source_note_id |-> args[t].note_id,
                   target_note_id |-> args[t].target_id,
                   relation_type |-> relation_type_str(args[t].relation_type),
                   created_at |-> clock]
       IN IF ForeignKeyOk(notes, row)
          THEN /\ note_relations' = Put(note_relations, id, row)
               /\ sqlite_sequence' = [sqlite_sequence EXCEPT !.note_relations = id]
               /\ Finish(t, DbOk([id |-> id, source_note_id |-> args[t].note_id,
                                   target_note_id |-> args[t].target_id,
                                   relation_type |-> args[t].relation_type,
                                   created_at |-> clock]))
          ELSE /\ Finish(t, DbErr(ConstraintViolation))
               /\ UNCHANGED <<note_relations, sqlite_sequence>>
    /\ UNCHANGED <<notes, snapshot, mutex, args, local, pre, clock, deleted, comments>>

\* ------------------------------------------------------------------ add_comment
add_comment_lock_upto(t, noteCap, relationCap, contents, tagInputs) ==
    /\ sqlite_sequence.notes < noteCap
    /\ sqlite_sequence.note_relations < relationCap
    /\ \E g \in NoteIds, c \in contents, tg \in tagInputs :
          Acquire(t, [NoArgs EXCEPT !.op = "add_comment", !.target_id = g,
                                    !.content = c, !.tags = tg], "add_comment_target")
add_comment_lock(t, contents, tagInputs) ==
    add_comment_lock_upto(t, MaxNotes, MaxRelations, contents, tagInputs)

\* SELECT 1 FROM notes WHERE id = target_note_id, then the early return.
add_comment_db_target(t) ==
    /\ pc[t] = "add_comment_target"
    /\ LET target_exists == args[t].target_id \in DOMAIN notes
       IN /\ local' = [local EXCEPT ![t].target_exists = target_exists]
          /\ IF ~target_exists
             THEN Finish(t, DbErr("QueryReturnedNoRows"))
             ELSE /\ pc' = [pc EXCEPT ![t] = "add_comment_insert_note"]
                  /\ UNCHANGED result
    /\ UNCHANGED <<notes, note_relations, sqlite_sequence, snapshot, mutex, args, pre,
                   clock, deleted, comments>>

\* conn.transaction() and tx.execute(INSERT INTO notes ...).
add_comment_db_insert_note(t) ==
    /\ pc[t] = "add_comment_insert_note"
    /\ LET tags_json == ToJson(unwrap_or_default(args[t].tags))
           id == NextRowid(notes, sqlite_sequence.notes)
       IN \E fault \in BOOLEAN :
            IF fault
            THEN /\ Finish(t, DbErr("SqliteFailure"))
                 /\ UNCHANGED <<notes, sqlite_sequence, snapshot, local>>
            ELSE /\ snapshot' = [open |-> TRUE, notes |-> notes,
                                 note_relations |-> note_relations,
                                 sqlite_sequence |-> sqlite_sequence]
                 /\ notes' = Put(notes, id, [content |-> args[t].content,
                                             tags |-> tags_json,
                                             created_at |-> clock,
                                             updated_at |-> clock])
                 /\ sqlite_sequence' = [sqlite_sequence EXCEPT !.notes = id]
                 /\ local' = [local EXCEPT ![t].id = id, ![t].tags_json = tags_json,
                                           ![t].created_at = clock]
                 /\ pc' = [pc EXCEPT ![t] = "add_comment_insert_relation"]
                 /\ UNCHANGED result
    /\ UNCHANGED <<note_relations, mutex, args, pre, clock, deleted, comments>>

\* Dropping an open rusqlite Transaction rolls it back.
KeepOnError(snap, cur) == cur
RollbackOnDrop(snap, cur) == [notes |-> snap.notes, note_relations |-> snap.note_relations,
                              sqlite_sequence |-> snap.sqlite_sequence]

\* INSERT INTO note_relations (source_note_id, target_note_id, relation_type,
\* created_at) VALUES (note_id, target_note_id, 'Comment', created_at)
CommentRowReversed(note_id, target_note_id, created_at) ==
    [source_note_id |-> target_note_id, target_note_id |-> note_id,
     relation_type |-> "Comment", created_at |-> created_at]
CommentRow(note_id, target_note_id, created_at) ==
    [source_note_id |-> note_id, target_note_id |-> target_note_id,
     relation_type |-> "Comment", created_at |-> created_at]

\* tx.execute(INSERT INTO note_relations ... 'Comment' ...); an error returns
\* through `?`, which drops the transaction.
add_comment_db_insert_relation(t) ==
    /\ pc[t] = "add_comment_insert_relation"
    /\ LET id == NextRowid(note_relations, sqlite_sequence.note_relations)
           row == CommentRow(local[t].id, args[t].target_id, local[t].created_at)
       IN \E fault \in BOOLEAN :
            IF fault \/ ~ForeignKeyOk(notes, row)
            THEN LET back == RollbackOnDrop(snapshot,
                                 [notes |-> notes, note_relations |-> note_relations,
                                  sqlite_sequence |-> sqlite_sequence])
                 IN /\ notes' = back.notes
                    /\ note_relations' = back.note_relations
                    /\ sqlite_sequence' = back.sqlite_sequence
                    /\ snapshot' = NoTx
                    /\ Finish(t, DbErr(IF ForeignKeyOk(notes, row)
                                        THEN "SqliteFailure"
                                        ELSE ConstraintViolation))
                    /\ UNCHANGED local
            ELSE /\ note_relations' = Put(note_relations, id, row)
                 /\ sqlite_sequence' = [sqlite_sequence EXCEPT !.note_relations = id]
                 /\ local' = [local EXCEPT ![t].relation_id = id]
                 /\ pc' = [pc EXCEPT ![t] = "add_comment_commit"]
                 /\ UNCHANGED <<notes, snapshot, result>>
    /\ UNCHANGED <<mutex, args, pre, clock, deleted, comments>>

\* tx.commit(), then the (Note, NoteRelation) pair is returned.
add_comment_db_commit(t) ==
    /\ pc[t] = "add_comment_commit"
    /\ snapshot' = NoTx
    /\ LET relation_id == local[t].relation_id
           note == [id |-> local[t].id, content |-> args[t].content,
                    tags |-> unwrap_or_default(args[t].tags),
                    created_at |-> local[t].created_at,
                    updated_at |-> local[t].created_at]
           relation == [id |-> relation_id, source_note_id |-> local[t].id,
                        target_note_id |-> args[t].target_id,
                        relation_type |-> "Comment",
                        created_at |-> local[t].created_at]
       IN /\ comments' = comments \cup {[note |-> local[t].id, relation |-> relation_id]}
          /\ Finish(t, DbOk([note |-> note, relation |-> relation]))
    /\ UNCHANGED <<notes, note_relations, sqlite_sequence, mutex, args, local, pre, clock,
                   deleted>>


\* ------------------------------------------------------------------ queries
\* The ids of S in ascending order of key, rowid order among equal keys.
RECURSIVE SortAsc(_, _)
SortAsc(S, key) ==
    IF S = {} THEN <<>>
    ELSE LET m == CHOOSE x \in S :
                    \A y \in S : key[x] < key[y] \/ (key[x] = key[y] /\ x <= y)
         IN <<m>> \o SortAsc(S \ {m}, key)

\* The first row error of a mapped row sequence, or Ok of the mapped values.
RECURSIVE Collect(_)
Collect(rs) ==
    IF rs = <<>> THEN DbOk(<<>>)
    ELSE IF ~Head(rs).ok THEN Head(rs)
    ELSE LET rest == Collect(Tail(rs))
         IN IF rest.ok THEN DbOk(<<Head(rs).value>> \o rest.value) ELSE rest

\* SQLite LIKE folds the case of ASCII letters.
Lower(c) == CASE c = "X" -> "x" [] c = "Y" -> "y" [] c = "Q" -> "q" [] OTHER -> c

\* SQLite LIKE: % is any run, _ is any one character.
RECURSIVE LikeMatch(_, _)
LikeMatch(pat, txt) ==
    IF pat = <<>> THEN txt = <<>>
    ELSE IF Head(pat) = "%"
         THEN LikeMatch(Tail(pat), txt) \/ (txt # <<>> /\ LikeMatch(pat, Tail(txt)))
    ELSE /\ txt # <<>>
         /\ (Head(pat) = "_" \/ Lower(Head(pat)) = Lower(Head(txt)))
         /\ LikeMatch(Tail(pat), Tail(txt))

\* " AND created_at >= ?" and " AND created_at < ?"
StrictlyAfter(created_at, after) == created_at > after
AtOrAfter(created_at, after) == created_at >= after
Before(created_at, before) == created_at < before

\* get_notes_db: WHERE 1=1 [AND tags LIKE '%"tag"%'] [AND created_at >= after]
\* [AND created_at < before] ORDER BY created_at DESC [LIMIT l]
get_notes_db(N, limit, tag, created_after, created_before) ==
    LET hit == {id \in DOMAIN N :
                  /\ tag.some =>
                       LikeMatch(<<"%", QUOTE>> \o tag.val \o <<QUOTE, "%">>, N[id].tags)
                  /\ created_after.some => AtOrAfter(N[id].created_at, created_after.val)
                  /\ created_before.some => Before(N[id].created_at, created_before.val)}
        ordered == SortAsc(hit, [id \in hit |-> 0 - N[id].created_at])
        limited == IF limit.some /\ limit.val >= 0 /\ limit.val < Len(ordered)
                   THEN SubSeq(ordered, 1, limit.val)
                   ELSE ordered
    IN Collect([i \in 1..Len(limited) |-> map_row_to_note(limited[i], N[limited[i]])])

\* get_all_tags_db: the tags of every row whose tags column parses.
get_all_tags_db(N) ==
    DbOk(UNION {{FromJson(N[id].tags).val[i] : i \in 1..Len(FromJson(N[id].tags).val)} :
                  id \in {n \in DOMAIN N : FromJson(N[n].tags).ok}})

\* get_detailed_tags_db: notes n, json_each(n.tags) jt WHERE json_valid(n.tags)
\* AND json_type(n.tags) = 'array' GROUP BY jt.value, with COUNT(*) and
\* MAX(n.updated_at) of each group; row.get("tag_name") reads each group's value
\* as a String, which fails on a value that is not text.
get_detailed_tags_db(N) ==
    LET valid == {n \in DOMAIN N : json_valid(N[n].tags) /\ json_type(N[n].tags) = "array"}
        joined == UNION {{[note |-> n, key |-> i] :
                            i \in 1..Len(json_each(N[n].tags))} : n \in valid}
        value(e) == json_each(N[e.note].tags)[e.key]
        groups == {value(e) : e \in joined}
    IN IF \E g \in groups : g.type # "text" THEN DbErr("InvalidColumnType")
       ELSE DbOk({[name |-> g.value,
                   count |-> Cardinality({e \in joined : value(e) = g}),
                   last_modified |->
                       LET ns == {e.note : e \in {x \in joined : value(x) = g}}
                       IN CHOOSE m \in {N[n].updated_at : n \in ns} :
                             \A n \in ns : N[n].updated_at <= m] : g \in groups})

\* map_row_to_relation: an unrecognised relation_type string reads as Reference.
map_row_to_relation(id, row) ==
    DbOk([id |-> id, source_note_id |-> row.source_note_id,
          target_note_id |-> row.target_note_id,
          relation_type |-> IF row.relation_type \in {"Comment", "Reference", "Link"}
                            THEN row.relation_type ELSE "Reference",
          created_at |-> row.created_at])

\* get_relations_for_note_db: WHERE target_note_id = ? [AND relation_type = ?]
\* ORDER BY created_at
get_relations_either_end(R, note_id, relation_type) ==
    LET hit == {r \in DOMAIN R :
                  /\ (R[r].target_note_id = note_id \/ R[r].source_note_id = note_id)
                  /\ relation_type.some => R[r].relation_type = relation_type.val}
        ordered == SortAsc(hit, [r \in hit |-> R[r].created_at])
    IN Collect([i \in 1..Len(ordered) |-> map_row_to_relation(ordered[i], R[ordered[i]])])
get_relations_for_note_db(R, note_id, relation_type) ==
    LET hit == {r \in DOMAIN R :
                  /\ R[r].target_note_id = note_id
                  /\ relation_type.some => R[r].relation_type = relation_type.val}
        ordered == SortAsc(hit, [r \in hit |-> R[r].created_at])
    IN Collect([i \in 1..Len(ordered) |-> map_row_to_relation(ordered[i], R[ordered[i]])])

\* get_comments_for_note_db: notes n JOIN note_relations r ON n.id = r.source_note_id
\* WHERE r.target_note_id = ? AND r.relation_type = 'Comment' ORDER BY r.created_at
get_comments_newest_first(N, R, note_id) ==
    LET hit == {r \in DOMAIN R :
                  /\ R[r].target_note_id = note_id
                  /\ R[r].relation_type = "Comment"
                  /\ R[r].source_note_id \in DOMAIN N}
        ordered == SortAsc(hit, [r \in hit |-> 0 - R[r].created_at])
        pair(r) ==
            LET n == map_row_to_note(R[r].source_note_id, N[R[r].source_note_id])
            IN IF ~n.ok THEN n
               ELSE DbOk([note |-> n.value,
                          relation |-> [id |-> r,
                                        source_note_id |-> R[r].source_note_id,
                                        target_note_id |-> R[r].target_note_id,
                                        relation_type |-> "Comment",
                                        created_at |-> R[r].created_at]])
    IN Collect([i \in 1..Len(ordered) |-> pair(ordered[i])])
get_comments_for_note_db(N, R, note_id) ==
    LET hit == {r \in DOMAIN R :
                  /\ R[r].target_note_id = note_id
                  /\ R[r].relation_type = "Comment"
                  /\ R[r].source_note_id \in DOMAIN N}
        ordered == SortAsc(hit, [r \in hit |-> R[r].created_at])
        pair(r) ==
            LET n == map_row_to_note(R[r].source_note_id, N[R[r].source_note_id])
            IN IF ~n.ok THEN n
               ELSE DbOk([note |-> n.value,
                          relation |-> [id |-> r,
                                        source_note_id |-> R[r].source_note_id,
                                        target_note_id |-> R[r].target_note_id,
                                        relation_type |-> "Comment",
                                        created_at |-> R[r].created_at]])
    IN Collect([i \in 1..Len(ordered) |-> pair(ordered[i])])


\* ------------------------------------------------------------------ readers
\* lib.rs get_notes passes no filter: get_notes_db(&conn, None, None, None, None).
get_notes_lock(t) == Acquire(t, [NoArgs EXCEPT !.op = "get_notes"], "get_notes_query")

\* main.rs get_notes_handler passes its query parameters:
\* get_notes_db(.., params.limit, params.tag, params.created_after, params.created_before).
get_notes_handler_lock(t, limits, tags, afters, befores) ==
    \E l \in limits, tg \in tags, ca \in afters, cb \in befores :
        Acquire(t, [NoArgs EXCEPT !.op = "get_notes", !.limit = l, !.tag = tg,
                                  !.created_after = ca, !.created_before = cb],
                "get_notes_query")

get_notes_db_query(t) ==
    /\ pc[t] = "get_notes_query"
    /\ Finish(t, get_notes_db(notes, args[t].limit, args[t].tag, args[t].created_after,
                              args[t].created_before))
    /\ UNCHANGED <<notes, note_relations, sqlite_sequence, snapshot, mutex, args, local,
                   pre, clock, deleted, comments>>

get_tags_lock(t) == Acquire(t, [NoArgs EXCEPT !.op = "get_tags"], "get_tags_query")

get_all_tags_db_query(t) ==
    /\ pc[t] = "get_tags_query"
    /\ Finish(t, get_all_tags_db(notes))
    /\ UNCHANGED <<notes, note_relations, sqlite_sequence, snapshot, mutex, args, local,
                   pre, clock, deleted, comments>>

get_detailed_tags_lock(t) ==
    Acquire(t, [NoArgs EXCEPT !.op = "get_detailed_tags"], "get_detailed_tags_query")

get_detailed_tags_db_query(t) ==
    /\ pc[t] = "get_detailed_tags_query"
    /\ Finish(t, get_detailed_tags_db(notes))
    /\ UNCHANGED <<notes, note_relations, sqlite_sequence, snapshot, mutex, args, local,
                   pre, clock, deleted, comments>>

\* lib.rs get_relations passes no type: get_relations_for_note_db(&conn, note_id, None).
get_relations_lock(t) ==
    \E id \in NoteIds :
        Acquire(t, [NoArgs EXCEPT !.op = "get_relations", !.note_id = id],
                "get_relations_query")

\* get_relations_for_note_db(conn, note_id, relation_type) called with a type.
get_relations_for_note_lock(t, types) ==
    \E id \in NoteIds, rt \in types :
        Acquire(t, [NoArgs EXCEPT !.op = "get_relations", !.note_id = id,
                                  !.type_filter = rt],
                "get_relations_query")

get_relations_for_note_db_query(t) ==
    /\ pc[t] = "get_relations_query"
    /\ Finish(t, get_relations_for_note_db(note_relations, args[t].note_id,
                                           args[t].type_filter))
    /\ UNCHANGED <<notes, note_relations, sqlite_sequence, snapshot, mutex, args, local,
                   pre, clock, deleted, comments>>

get_comments_lock(t) ==
    \E id \in NoteIds :
        Acquire(t, [NoArgs EXCEPT !.op = "get_comments", !.note_id = id],
                "get_comments_query")

get_comments_for_note_db_query(t) ==
    /\ pc[t] = "get_comments_query"
    /\ Finish(t, get_comments_for_note_db(notes, note_relations, args[t].note_id))
    /\ UNCHANGED <<notes, note_relations, sqlite_sequence, snapshot, mutex, args, local,
                   pre, clock, deleted, comments>>

\* ------------------------------------------------------------------ specification
\* Every route of mount_rocket. The clock stands still here (Tick is left out):
\* nothing checked under Spec reads a timestamp.
Next ==
    \E t \in Threads :
        \/ create_note_lock(t, Contents, TagInputs, {NoneTime})
        \/ create_note_db_insert(t)
        \/ create_note_db_commit(t)
        \/ get_note_lock(t)
        \/ get_note_db_query(t)
        \/ update_note_lock(t, Contents, TagInputs)
        \/ update_note_db_update(t)
        \/ update_note_db_get(t)
        \/ delete_note_lock(t)
        \/ delete_note_db(t)
        \/ create_relation_lock(t)
        \/ create_note_relation_db_source(t)
        \/ create_note_relation_db_target(t)
        \/ create_note_relation_db_insert(t)
        \/ add_comment_lock(t, Contents, TagInputs)
        \/ add_comment_db_target(t)
        \/ add_comment_db_insert_note(t)
        \/ add_comment_db_insert_relation(t)
        \/ add_comment_db_commit(t)
        \/ get_notes_lock(t)
        \/ get_notes_db_query(t)
        \/ get_tags_lock(t)
        \/ get_all_tags_db_query(t)
        \/ get_detailed_tags_lock(t)
        \/ get_detailed_tags_db_query(t)
        \/ get_relations_lock(t)
        \/ get_relations_for_note_db_query(t)
        \/ get_comments_lock(t)
        \/ get_comments_for_note_db_query(t)
        \/ Return(t)

Spec == Init /\ [][Next]_vars


\* The note store alone, with the tag payloads of the round trip.
NextRoundTrip ==
    \E t \in Threads :
        \/ create_note_lock(t, RoundTripContents, RoundTripTagInputs, {NoneTime})
        \/ create_note_db_insert(t)
        \/ create_note_db_commit(t)
        \/ get_note_lock(t)
        \/ get_note_db_query(t)
        \/ update_note_lock(t, RoundTripContents, RoundTripTagInputs)
        \/ update_note_db_update(t)
        \/ update_note_db_get(t)
        \/ delete_note_lock(t)
        \/ delete_note_db(t)
        \/ Return(t)

SpecRoundTrip == Init /\ [][NextRoundTrip]_vars


\* Notes under a running clock: tagged notes are created with one content and
\* updated with another, with or without tags; addComment supplies relations.
NextUpdate ==
    \/ Tick
    \/ \E t \in Threads :
        \/ create_note_lock(t, Contents, {Some(<<TagX>>)}, {NoneTime})
        \/ create_note_db_insert(t)
        \/ create_note_db_commit(t)
        \/ update_note_lock(t, UpdateContents, TagInputs)
        \/ update_note_db_update(t)
        \/ update_note_db_get(t)
        \/ add_comment_lock(t, Contents, {NoneOpt})
        \/ add_comment_db_target(t)
        \/ add_comment_db_insert_note(t)
        \/ add_comment_db_insert_relation(t)
        \/ add_comment_db_commit(t)
        \/ Return(t)

SpecUpdate == Init /\ [][NextUpdate]_vars


\* The note store under a running clock, created_at supplied by the caller or
\* defaulted to Utc::now().
NextClock ==
    \/ Tick
    \/ \E t \in Threads :
        \/ create_note_lock(t, Contents, {NoneOpt}, CreatedAtInputs)
        \/ create_note_db_insert(t)
        \/ create_note_db_commit(t)
        \/ get_note_lock(t)
        \/ get_note_db_query(t)
        \/ update_note_lock(t, Contents, {NoneOpt})
        \/ update_note_db_update(t)
        \/ update_note_db_get(t)
        \/ delete_note_lock(t)
        \/ delete_note_db(t)
        \/ Return(t)

SpecClock == Init /\ [][NextClock]_vars


\* The listing with a tag filter, over notes of several tag sequences.
NextList ==
    \E t \in Threads :
        \/ create_note_lock(t, Contents, ListTagInputs, {NoneTime})
        \/ create_note_db_insert(t)
        \/ create_note_db_commit(t)
        \/ delete_note_lock(t)
        \/ delete_note_db(t)
        \/ get_notes_handler_lock(t, {NoneInt}, ListTagFilters, {NoneTime}, {NoneTime})
        \/ get_notes_db_query(t)
        \/ Return(t)

SpecList == Init /\ [][NextList]_vars


\* The writers of notes and the two tag listings, over tag sequences that are
\* omitted, empty, of two tags, and of one tag twice.
NextTags ==
    \E t \in Threads :
        \/ create_note_lock(t, Contents, TagSetInputs, {NoneTime})
        \/ create_note_db_insert(t)
        \/ create_note_db_commit(t)
        \/ update_note_lock(t, Contents, TagSetInputs)
        \/ update_note_db_update(t)
        \/ update_note_db_get(t)
        \/ delete_note_lock(t)
        \/ delete_note_db(t)
        \/ add_comment_lock(t, Contents, TagSetInputs)
        \/ add_comment_db_target(t)
        \/ add_comment_db_insert_note(t)
        \/ add_comment_db_insert_relation(t)
        \/ add_comment_db_commit(t)
        \/ get_tags_lock(t)
        \/ get_all_tags_db_query(t)
        \/ get_detailed_tags_lock(t)
        \/ get_detailed_tags_db_query(t)
        \/ Return(t)

SpecTags == Init /\ [][NextTags]_vars


\* Relations written at different times between notes of one payload, and the
\* two relation listings.
NextRelations ==
    \/ Tick
    \/ \E t \in Threads :
        \/ create_note_lock(t, Contents, {NoneOpt}, {AtZero})
        \/ create_note_db_insert(t)
        \/ create_note_db_commit(t)
        \/ create_relation_lock_upto(t, MaxListedRelations, ListedEnds, ListedTypes)
        \/ create_note_relation_db_source(t)
        \/ create_note_relation_db_target(t)
        \/ create_note_relation_db_insert(t)
        \/ get_relations_for_note_lock(t, TypeFilters)
        \/ get_relations_for_note_db_query(t)
        \/ get_comments_lock(t)
        \/ get_comments_for_note_db_query(t)
        \/ Return(t)

SpecRelations == Init /\ [][NextRelations]_vars


\* The listing by creation time, over notes whose created_at the caller chose.
NextWindow ==
    \E t \in Threads :
        \/ create_note_lock(t, Contents, {NoneOpt}, CreatedAtInputs)
        \/ create_note_db_insert(t)
        \/ create_note_db_commit(t)
        \/ get_notes_handler_lock(t, {NoneInt}, {NoneOpt}, TimeFilters, TimeFilters)
        \/ get_notes_db_query(t)
        \/ Return(t)

SpecWindow == Init /\ [][NextWindow]_vars


\* The listing with a limit.
NextLimit ==
    \E t \in Threads :
        \/ create_note_lock(t, Contents, {NoneOpt}, CreatedAtInputs)
        \/ create_note_db_insert(t)
        \/ create_note_db_commit(t)
        \/ get_notes_handler_lock(t, LimitInputs, {NoneOpt}, {NoneTime}, {NoneTime})
        \/ get_notes_db_query(t)
        \/ Return(t)

SpecLimit == Init /\ [][NextLimit]_vars


\* Comments upon comments: addComment may add a note and a relation beyond
\* those the other routes' bounds allow, so that it finds earlier ones in place.
NextComment ==
    \E t \in Threads :
        \/ create_note_lock(t, Contents, TagInputs, {NoneTime})
        \/ create_note_db_insert(t)
        \/ create_note_db_commit(t)
        \/ add_comment_lock_upto(t, MaxCommentNotes, MaxListedRelations, UpdateContents,
                                 TagInputs)
        \/ add_comment_db_target(t)
        \/ add_comment_db_insert_note(t)
        \/ add_comment_db_insert_relation(t)
        \/ add_comment_db_commit(t)
        \/ Return(t)

SpecComment == Init /\ [][NextComment]_vars


\* A database file that already holds a note whose tags column is not the JSON
\* of a list of strings: migrate creates the table only IF NOT EXISTS and the
\* column is unconstrained TEXT.
InitLegacy ==
    /\ \E tg \in LegacyTags :
          notes = Put(EmptyTable, 1, [content |-> "a", tags |-> tg, created_at |-> 0,
                                      updated_at |-> 0])
    /\ note_relations = EmptyTable
    /\ sqlite_sequence = [notes |-> 1, note_relations |-> 0]
    /\ snapshot = NoTx
    /\ mutex = NoThread
    /\ pc = [t \in Threads |-> "idle"]
    /\ args = [t \in Threads |-> NoArgs]
    /\ local = [t \in Threads |-> NoLocal]
    /\ result = [t \in Threads |-> NoResult]
    /\ pre = [t \in Threads |-> NoPre]
    /\ clock = 0
    /\ deleted = {}
    /\ comments = {}

NextLegacy ==
    \E t \in Threads :
        \/ create_note_lock(t, Contents, ListTagInputs, {NoneTime})
        \/ create_note_db_insert(t)
        \/ create_note_db_commit(t)
        \/ delete_note_lock(t)
        \/ delete_note_db(t)
        \/ get_tags_lock(t)
        \/ get_all_tags_db_query(t)
        \/ get_detailed_tags_lock(t)
        \/ get_detailed_tags_db_query(t)
        \/ Return(t)

SpecLegacy == InitLegacy /\ [][NextLegacy]_vars


\* ------------------------------------------------------------------ claims
Done(t, op) == pc[t] = "done" /\ args[t].op = op
Names(R, id) == {r \in DOMAIN R : R[r].source_note_id = id \/ R[r].target_note_id = id}
Readers == {"get_note", "get_notes", "get_tags", "get_detailed_tags", "get_relations",
            "get_comments"}

\* C1: in every reachable state, the statements of a transaction in progress
\* included, both endpoints of every stored relation are stored notes.
C1_NoDanglingRelation ==
    \A r \in DOMAIN note_relations :
        /\ note_relations[r].source_note_id \in DOMAIN notes
        /\ note_relations[r].target_note_id \in DOMAIN notes

\* A delete has just removed a note that stored relations named.
C1_Witness ==
    \E t \in Threads :
        /\ Done(t, "delete_note")
        /\ result[t].db.value = TRUE
        /\ Names(pre[t].note_relations, args[t].note_id) # {}
        /\ notes # EmptyTable

\* C2: when add_comment_db's relation insert fails after its note insert, the
\* tables are those the call found: the note is not returned by get or list, its
\* tags are not in allTags and the target has no new comment.
C2_AddCommentRollsBack ==
    \A t \in Threads :
        (Done(t, "add_comment") /\ ~result[t].db.ok /\ local[t].id # 0) =>
            /\ notes = pre[t].notes
            /\ note_relations = pre[t].note_relations
            /\ ~snapshot.open
            /\ get_note_db(notes, local[t].id) = DbOk(NoneOpt)
            /\ get_notes_db(notes, NoneInt, NoneOpt, NoneTime, NoneTime)
                 = get_notes_db(pre[t].notes, NoneInt, NoneOpt, NoneTime, NoneTime)
            /\ get_all_tags_db(notes) = get_all_tags_db(pre[t].notes)
            /\ get_comments_for_note_db(notes, note_relations, args[t].target_id)
                 = get_comments_for_note_db(pre[t].notes, pre[t].note_relations,
                                            args[t].target_id)

\* The relation insert failed after a note carrying a tag was inserted.
C2_Witness ==
    \E t \in Threads :
        /\ Done(t, "add_comment")
        /\ ~result[t].db.ok
        /\ local[t].id # 0
        /\ args[t].tags.some

\* C3: delete of a stored note returns true (204 No Content) and leaves neither
\* the note nor a relation naming it.
C3_DeleteRemovesNoteAndRelations ==
    \A t \in Threads :
        (Done(t, "delete_note") /\ args[t].note_id \in DOMAIN pre[t].notes) =>
            /\ result[t].db = DbOk(TRUE)
            /\ result[t].http = "NoContent"
            /\ args[t].note_id \notin DOMAIN notes
            /\ Names(note_relations, args[t].note_id) = {}

\* The deleted note was the target of a relation whose source is still stored.
C3_Witness ==
    \E t \in Threads :
        /\ Done(t, "delete_note")
        /\ \E r \in DOMAIN pre[t].note_relations :
              /\ pre[t].note_relations[r].target_note_id = args[t].note_id
              /\ pre[t].note_relations[r].source_note_id # args[t].note_id
              /\ pre[t].note_relations[r].source_note_id \in DOMAIN notes

\* C4: get of a deleted id answers NotFound, and a further delete of it returns
\* false, not an error, and changes neither table.
C4_DeleteIdempotent ==
    \A t \in Threads :
        /\ (Done(t, "get_note") /\ args[t].note_id \in deleted) =>
              /\ result[t].db = DbOk(NoneOpt)
              /\ result[t].http = "NotFound"
        /\ (Done(t, "delete_note") /\ args[t].note_id \in deleted
              /\ args[t].note_id \notin DOMAIN pre[t].notes) =>
              /\ result[t].db = DbOk(FALSE)
              /\ result[t].http = "NotFound"
              /\ notes = pre[t].notes
              /\ note_relations = pre[t].note_relations

\* A second delete of an id has answered while notes and relations are stored.
C4_Witness ==
    \E t \in Threads :
        /\ Done(t, "delete_note")
        /\ args[t].note_id \in deleted
        /\ args[t].note_id \notin DOMAIN pre[t].notes
        /\ notes # EmptyTable

\* C5: once create(content, tags) has inserted its row it returns a note, and
\* get of that note's id yields the payload's content and its tag sequence
\* element for element, as does the note create returned.
C5_CreateGetRoundTrip ==
    \A t \in Threads :
        (Done(t, "create_note") /\ local[t].id # 0) =>
            LET got == get_note_db(notes, local[t].id)
            IN /\ result[t].db.ok
               /\ result[t].db.value.id = local[t].id
               /\ got.ok
               /\ got.value.some
               /\ got.value.val.content = args[t].content
               /\ got.value.val.tags = unwrap_or_default(args[t].tags)
               /\ result[t].db.value.tags = unwrap_or_default(args[t].tags)

\* A note was created whose tags repeat, or hold a quote and a backslash.
C5_Witness ==
    \E t \in Threads :
        /\ Done(t, "create_note") /\ result[t].db.ok
        /\ args[t].tags = Some(<<TagQ>>)
        /\ \E n \in DOMAIN notes : FromJson(notes[n].tags).val = <<TagX, TagX>>

\* C6: createRelation with a missing endpoint answers NotFound and leaves
\* note_relations as it was.
C6_CreateRelationNotFound ==
    \A t \in Threads :
        (Done(t, "create_relation")
           /\ (args[t].note_id \notin DOMAIN pre[t].notes
               \/ args[t].target_id \notin DOMAIN pre[t].notes)) =>
            /\ result[t].http = "NotFound"
            /\ note_relations = pre[t].note_relations

\* The source exists and the target was deleted before the call.
C6_Witness ==
    \E t \in Threads :
        /\ Done(t, "create_relation")
        /\ args[t].note_id \in DOMAIN pre[t].notes
        /\ args[t].target_id \in deleted

\* C7: addComment on a missing target answers NotFound, adds no note and no
\* relation, and the target still has no comments.
C7_AddCommentNotFound ==
    \A t \in Threads :
        (Done(t, "add_comment") /\ args[t].target_id \notin DOMAIN pre[t].notes) =>
            /\ result[t].http = "NotFound"
            /\ notes = pre[t].notes
            /\ note_relations = pre[t].note_relations
            /\ get_comments_for_note_db(notes, note_relations, args[t].target_id)
                 = DbOk(<<>>)

\* A comment was added to a target that is not stored, while other notes are.
C7_Witness ==
    \E t \in Threads :
        /\ Done(t, "add_comment")
        /\ args[t].target_id \notin DOMAIN pre[t].notes
        /\ notes # EmptyTable


C9_CommentPairIsOneUnit ==
    \A c \in comments : (c.note \in DOMAIN notes) <=> (c.relation \in DOMAIN note_relations)

\* C9 (amended): the pair is committed together, and the Comment relation is
\* stored only while its source note, the note committed with it, is stored; the
\* note may outlive the relation (deleting the target removes the relation alone).
C9_CommentRelationNeedsItsNote ==
    /\ \A c \in comments :
          c.relation \in DOMAIN note_relations =>
              /\ c.note \in DOMAIN notes
              /\ note_relations[c.relation].source_note_id = c.note
              /\ note_relations[c.relation].relation_type = "Comment"
    /\ \A t \in Threads :
          (Done(t, "add_comment") /\ result[t].db.ok) =>
              /\ result[t].db.value.note.id \in DOMAIN notes
              /\ result[t].db.value.relation.id \in DOMAIN note_relations
              /\ [note |-> result[t].db.value.note.id,
                  relation |-> result[t].db.value.relation.id] \in comments

\* The target of a comment was deleted: the comment note is stored, its relation
\* is not.
C9_Witness ==
    \E c \in comments :
        /\ c.note \in DOMAIN notes
        /\ c.relation \notin DOMAIN note_relations
        /\ deleted # {}

\* What a reader's db call returns on tables N, R.
Query(a, N, R) ==
    CASE a.op = "get_note" -> get_note_db(N, a.note_id)
      [] a.op = "get_notes" -> get_notes_db(N, a.limit, a.tag, a.created_after,
                                            a.created_before)
      [] a.op = "get_tags" -> get_all_tags_db(N)
      [] a.op = "get_detailed_tags" -> get_detailed_tags_db(N)
      [] a.op = "get_relations" -> get_relations_for_note_db(R, a.note_id, a.type_filter)
      [] a.op = "get_comments" -> get_comments_for_note_db(N, R, a.note_id)

\* C10: what a reader returns is its query over the committed tables: no
\* transaction is open when it reads, so it never sees add_comment_db's note
\* without its relation; and every relation it returns names stored notes only,
\* delete's cascade being part of the delete.
C10_ReadersSeeCommittedState ==
    \A t \in Threads :
        (pc[t] = "done" /\ args[t].op \in Readers) =>
            /\ result[t].db = Query(args[t], Committed.notes, Committed.note_relations)
            /\ args[t].op = "get_relations" =>
                  \A i \in 1..Len(result[t].db.value) :
                      /\ result[t].db.value[i].source_note_id \in DOMAIN Committed.notes
                      /\ result[t].db.value[i].target_note_id \in DOMAIN Committed.notes


\* A reader has returned a comment thread after an earlier delete.
C10_Witness ==
    \E t \in Threads :
        /\ Done(t, "get_comments")
        /\ result[t].db.ok
        /\ result[t].db.value # <<>>
        /\ deleted # {}


\* C11: update calls on the same note are linearized. When an update of a stored
\* note completes, the row is the row the call found with content and tags both
\* replaced by this call's payload, and the note the call returns carries that same
\* content and those same tags: no state mixes one call's content with another
\* call's tags.
C11_UpdatesLinearized ==
    \A t \in Threads :
        (Done(t, "update_note") /\ args[t].note_id \in DOMAIN pre[t].notes) =>
            LET id == args[t].note_id
                tags_json == ToJson(unwrap_or_default(args[t].tags))
            IN /\ id \in DOMAIN notes
               /\ notes[id].content = args[t].content
               /\ notes[id].tags = tags_json
               /\ \A n \in DOMAIN pre[t].notes \ {id} :
                     n \in DOMAIN notes /\ notes[n] = pre[t].notes[n]
               /\ result[t].db.ok => /\ result[t].db.value.some
                                     /\ result[t].db.value.val.content = args[t].content
                                     /\ ToJson(result[t].db.value.val.tags) = tags_json

\* An update has replaced a row that an earlier call had written with another
\* content and other tags.
C11_Witness ==
    \E t \in Threads :
        /\ Done(t, "update_note")
        /\ args[t].note_id \in DOMAIN pre[t].notes
        /\ pre[t].notes[args[t].note_id].content # args[t].content
        /\ pre[t].notes[args[t].note_id].tags # ToJson(unwrap_or_default(args[t].tags))
        /\ pre[t].notes[args[t].note_id].tags # ToJson(<<>>)
        /\ args[t].tags.some
        /\ result[t].db.ok

\* C12: a createRelation or addComment that names a note which a delete removes
\* answers Created or NotFound. Its insert never meets a missing endpoint, so
\* no foreign key refusal is ever reported; the only internal failure it can
\* report is a storage failure of its own statements, and a call whose named
\* endpoint is already deleted answers NotFound.
C12_DeleteRaceIsNotFound ==
    \A t \in Threads :
        (Done(t, "create_relation") \/ Done(t, "add_comment")) =>
            /\ result[t].db.err # ConstraintViolation
            /\ result[t].http \in {"Created", "NotFound", "InternalServerError"}
            /\ result[t].http = "InternalServerError" =>
                  (args[t].op = "add_comment" /\ result[t].db.err = "SqliteFailure")
            /\ (args[t].target_id \in deleted
                \/ (args[t].op = "create_relation" /\ args[t].note_id \in deleted)) =>
                  result[t].http = "NotFound"

\* A createRelation whose source a delete has removed, its target still stored,
\* has answered NotFound.
C12_Witness ==
    \E t \in Threads :
        /\ Done(t, "create_relation")
        /\ args[t].note_id \in deleted
        /\ args[t].target_id \in DOMAIN notes
        /\ result[t].http = "NotFound"
        /\ result[t].db.err = "QueryReturnedNoRows"

\* C13: deletion is terminal. No stored note, committed or in an open
\* transaction, has the id of a deleted note; a get or an update of a deleted id
\* answers NotFound with Ok(None), the update changing nothing; and the note a
\* createNote or addComment returns never has a deleted id.
C13_DeletedStaysDeleted ==
    /\ deleted \cap DOMAIN notes = {}
    /\ \A t \in Threads :
          /\ ((Done(t, "get_note") \/ Done(t, "update_note"))
              /\ args[t].note_id \in deleted) =>
                 /\ result[t].db = DbOk(NoneOpt)
                 /\ result[t].http = "NotFound"
                 /\ notes = pre[t].notes
          /\ (Done(t, "create_note") /\ result[t].db.ok) =>
                 result[t].db.value.id \notin deleted
          /\ (Done(t, "add_comment") /\ result[t].db.ok) =>
                 result[t].db.value.note.id \notin deleted

\* A createNote has succeeded after a delete removed a note.
C13_Witness ==
    \E t \in Threads :
        /\ Done(t, "create_note")
        /\ result[t].db.ok
        /\ deleted # {}
        /\ result[t].db.value.id \in DOMAIN notes

\* C14: every stored note has updated_at >= created_at, whatever created_at the
\* caller supplied and whatever updates followed.
C14_UpdatedNotBeforeCreated ==
    \A id \in DOMAIN notes : notes[id].updated_at >= notes[id].created_at

\* C15: an update of a stored note replaces its content and its tags by the
\* payload's (omitted tags become the empty sequence), sets updated_at to the
\* time the call read, which is not before the old updated_at, and leaves the
\* note's id and created_at, every other note and every relation as they were;
\* the note it returns is that row.
C15_UpdateFrame ==
    \A t \in Threads :
        (Done(t, "update_note") /\ args[t].note_id \in DOMAIN pre[t].notes) =>
            LET id == args[t].note_id
                old == pre[t].notes[id]
            IN /\ DOMAIN notes = DOMAIN pre[t].notes
               /\ notes[id].content = args[t].content
               /\ FromJson(notes[id].tags).ok
               /\ FromJson(notes[id].tags).val =
                     (IF args[t].tags.some THEN args[t].tags.val ELSE <<>>)
               /\ notes[id].updated_at = local[t].updated_at
               /\ notes[id].updated_at >= old.updated_at
               /\ notes[id].updated_at <= clock
               /\ notes[id].created_at = old.created_at
               /\ \A n \in DOMAIN notes \ {id} : notes[n] = pre[t].notes[n]
               /\ note_relations = pre[t].note_relations
               /\ result[t].db = get_note_db(notes, id)
               /\ result[t].db.ok /\ result[t].db.value.some
               /\ result[t].db.value.val.id = id
               /\ result[t].http = "Ok"

\* An update without tags has emptied the tags of a tagged note at a later time
\* than its last write, with another note and a relation stored.
C15_Witness ==
    \E t \in Threads :
        /\ Done(t, "update_note")
        /\ args[t].note_id \in DOMAIN pre[t].notes
        /\ ~args[t].tags.some
        /\ pre[t].notes[args[t].note_id].tags = ToJson(<<TagX>>)
        /\ pre[t].notes[args[t].note_id].content # args[t].content
        /\ notes[args[t].note_id].updated_at > pre[t].notes[args[t].note_id].updated_at
        /\ DOMAIN notes # {args[t].note_id}
        /\ note_relations # EmptyTable

\* C16: an update of an id that names no stored note returns Ok(None), which the
\* handler answers with NotFound, not with an error status, and leaves every
\* note and every relation as they were.
C16_UpdateMissingIsNotFound ==
    \A t \in Threads :
        (Done(t, "update_note") /\ args[t].note_id \notin DOMAIN pre[t].notes) =>
            /\ result[t].db.ok
            /\ result[t].db = DbOk(NoneOpt)
            /\ result[t].http = "NotFound"
            /\ notes = pre[t].notes
            /\ note_relations = pre[t].note_relations
            /\ args[t].note_id \notin DOMAIN notes

\* An update of an id that no note ever had has completed, with notes and a
\* relation stored.
C16_Witness ==
    \E t \in Threads :
        /\ Done(t, "update_note")
        /\ args[t].note_id > sqlite_sequence.notes
        /\ notes # EmptyTable
        /\ note_relations # EmptyTable
        /\ result[t].http = "NotFound"

\* The tag sequence of a stored note, as a get of it returns it.
TagsOf(N, id) == get_note_db(N, id).value.val.tags
Carries(N, id, tg) == \E i \in 1..Len(TagsOf(N, id)) : TagsOf(N, id)[i] = tg

\* C17: a listing filtered by tag t returns a note if and only if the note's
\* tag sequence has an element equal to t.
C17_TagFilterIsExact ==
    \A t \in Threads :
        (Done(t, "get_notes") /\ args[t].tag.some /\ ~args[t].limit.some
         /\ ~args[t].created_after.some /\ ~args[t].created_before.some) =>
            /\ result[t].db.ok
            /\ {result[t].db.value[i].id : i \in 1..Len(result[t].db.value)} =
                  {id \in DOMAIN notes : Carries(notes, id, args[t].tag.val)}

\* C18: in what detailedTags returns, the count of every tag is the number of
\* stored notes whose tag sequence contains it.
C18_CountIsNumberOfNotes ==
    \A t \in Threads :
        Done(t, "get_detailed_tags") =>
            /\ result[t].db.ok
            /\ \A e \in result[t].db.value :
                  e.count = Cardinality({id \in DOMAIN notes : Carries(notes, id, e.name)})

\* The elements of a sequence, and the distinct tags of the stored notes.
Elems(q) == {q[i] : i \in 1..Len(q)}
AllTagsOf(N) == UNION {Elems(TagsOf(N, id)) : id \in DOMAIN N}

\* C19: allTags returns exactly the distinct tags of the notes stored when it
\* runs, and detailedTags one entry for each of them and no other. Each writer
\* moves that set with it: after a create or an addComment it is the old set
\* plus the payload's tags, after an update the tags of the other notes plus
\* the payload's, after a delete the tags of the remaining notes, so a tag is
\* gone as soon as the last note carrying it is deleted or updated away.
C19_TagListingsAreCurrent ==
    \A t \in Threads :
        /\ Done(t, "get_tags") => result[t].db = DbOk(AllTagsOf(notes))
        /\ Done(t, "get_detailed_tags") =>
              /\ result[t].db.ok
              /\ {e.name : e \in result[t].db.value} = AllTagsOf(notes)
              /\ Cardinality(result[t].db.value) = Cardinality(AllTagsOf(notes))
        /\ ((Done(t, "create_note") \/ Done(t, "add_comment")) /\ result[t].db.ok) =>
              get_all_tags_db(notes).value =
                  AllTagsOf(pre[t].notes) \cup Elems(unwrap_or_default(args[t].tags))
        /\ (Done(t, "update_note") /\ args[t].note_id \in DOMAIN pre[t].notes) =>
              get_all_tags_db(notes).value =
                  AllTagsOf(Remove(pre[t].notes, {args[t].note_id}))
                      \cup Elems(IF args[t].tags.some THEN args[t].tags.val ELSE <<>>)
        /\ Done(t, "delete_note") =>
              get_all_tags_db(notes).value =
                  AllTagsOf(Remove(pre[t].notes, {args[t].note_id}))

\* A delete has removed the last note carrying some tag while another tag
\* remains listed.
C19_Witness ==
    \E t \in Threads :
        /\ Done(t, "delete_note")
        /\ result[t].db.value = TRUE
        /\ get_all_tags_db(notes).value # AllTagsOf(pre[t].notes)
        /\ get_all_tags_db(notes).value # {}

\* C20: a createNote whose tags are omitted or empty leaves what allTags and
\* detailedTags return as it was, every name, count and last_modified, and
\* neither listing has an entry whose name is the empty string.
C20_UntaggedCreateKeepsTags ==
    \A t \in Threads :
        (Done(t, "create_note") /\ local[t].id # 0
         /\ (~args[t].tags.some \/ args[t].tags.val = <<>>)) =>
            /\ result[t].db.ok
            /\ get_all_tags_db(notes) = get_all_tags_db(pre[t].notes)
            /\ get_detailed_tags_db(notes) = get_detailed_tags_db(pre[t].notes)
            /\ <<>> \notin get_all_tags_db(notes).value
            /\ \A e \in get_detailed_tags_db(notes).value : e.name # <<>>

\* A createNote that omits tags has stored its note beside a tagged note.
C20_Witness ==
    \E t \in Threads :
        /\ Done(t, "create_note")
        /\ ~args[t].tags.some
        /\ result[t].db.ok
        /\ result[t].db.value.id \in DOMAIN notes
        /\ get_all_tags_db(pre[t].notes).value # {}

\* C21: relationsForNote(n, type) returns, each once, exactly the relations
\* whose target is n and, when a type is given, whose type is that type, with
\* the endpoints they were stored with; a relation of which n is only the
\* source is not returned.
C21_RelationsForTarget ==
    \A t \in Threads :
        Done(t, "get_relations") =>
            LET n == args[t].note_id
                got == result[t].db.value
                want == {r \in DOMAIN note_relations :
                           /\ note_relations[r].target_note_id = n
                           /\ args[t].type_filter.some =>
                                 note_relations[r].relation_type = args[t].type_filter.val}
            IN /\ result[t].db.ok
               /\ {got[i].id : i \in 1..Len(got)} = want
               /\ Len(got) = Cardinality(want)
               /\ \A i \in 1..Len(got) :
                     /\ got[i].target_note_id = n
                     /\ got[i].source_note_id = note_relations[got[i].id].source_note_id
                     /\ args[t].type_filter.some =>
                           got[i].relation_type = args[t].type_filter.val

\* A listing by type has returned the one relation into a note that is also the
\* source of a relation into another note.
C21_Witness ==
    \E t \in Threads :
        /\ Done(t, "get_relations")
        /\ args[t].type_filter.some
        /\ Len(result[t].db.value) = 1
        /\ \E r \in DOMAIN note_relations :
              /\ note_relations[r].source_note_id = args[t].note_id
              /\ note_relations[r].target_note_id # args[t].note_id

\* C22: commentsForNote(n) returns one pair for every stored relation of type
\* Comment whose target is n and for no other relation; the note of a pair is
\* the stored source note of its relation; and the pairs are in ascending
\* order of the relations' created_at.
C22_CommentsForTarget ==
    \A t \in Threads :
        Done(t, "get_comments") =>
            LET n == args[t].note_id
                got == result[t].db.value
                want == {r \in DOMAIN note_relations :
                           /\ note_relations[r].target_note_id = n
                           /\ note_relations[r].relation_type = "Comment"}
            IN /\ result[t].db.ok
               /\ {got[i].relation.id : i \in 1..Len(got)} = want
               /\ Len(got) = Cardinality(want)
               /\ \A i \in 1..Len(got) :
                     LET row == note_relations[got[i].relation.id]
                     IN /\ got[i].relation.source_note_id = row.source_note_id
                        /\ got[i].relation.target_note_id = n
                        /\ got[i].relation.relation_type = "Comment"
                        /\ got[i].relation.created_at = row.created_at
                        /\ got[i].note.id = row.source_note_id
                        /\ get_note_db(notes, row.source_note_id) = DbOk(Some(got[i].note))
               /\ \A i, j \in 1..Len(got) :
                     i < j => got[i].relation.created_at <= got[j].relation.created_at

\* The comments of a note have been listed: two relations of type Comment
\* written at different times.
C22_Witness ==
    \E t \in Threads :
        /\ Done(t, "get_comments")
        /\ Len(result[t].db.value) = 2
        /\ result[t].db.value[1].relation.created_at
              < result[t].db.value[2].relation.created_at

\* C23: a listing with created_after = a and created_before = b returns exactly
\* the stored notes with a <= created_at < b, an absent bound not restricting:
\* a note created at a is returned and a note created at b is not.
C23_WindowIsHalfOpen ==
    \A t \in Threads :
        (Done(t, "get_notes") /\ ~args[t].tag.some /\ ~args[t].limit.some) =>
            LET got == result[t].db.value
                a == args[t].created_after
                b == args[t].created_before
            IN /\ result[t].db.ok
               /\ {got[i].id : i \in 1..Len(got)} =
                     {id \in DOMAIN notes :
                        /\ a.some => a.val <= notes[id].created_at
                        /\ b.some => notes[id].created_at < b.val}
               /\ Len(got) = Cardinality({got[i].id : i \in 1..Len(got)})

\* A listing between a and b has returned a note created at a and left out a
\* note created at b.
C23_Witness ==
    \E t \in Threads :
        /\ Done(t, "get_notes")
        /\ args[t].created_after.some /\ args[t].created_before.some
        /\ \E i \in 1..Len(result[t].db.value) :
              result[t].db.value[i].created_at = args[t].created_after.val
        /\ \E id \in DOMAIN notes : notes[id].created_at = args[t].created_before.val

\* C24: a listing with limit n returns at most n notes, for every n the caller
\* can supply; a count is never negative, so for a negative n that is at most
\* no note at all.
C24_LimitCapsCount ==
    \A t \in Threads :
        (Done(t, "get_notes") /\ args[t].limit.some /\ result[t].db.ok) =>
            Len(result[t].db.value) <= (IF args[t].limit.val < 0 THEN 0
                                        ELSE args[t].limit.val)

\* C25: a createNote whose content is empty is answered with BadRequest and
\* stores no note: the table is as the call found it. (A call that ends in a
\* storage failure is left aside: it stores no note either.)
C25_EmptyContentRejected ==
    \A t \in Threads :
        (Done(t, "create_note") /\ args[t].content = ""
         /\ result[t].db.err # "SqliteFailure") =>
            /\ result[t].http = "BadRequest"
            /\ notes = pre[t].notes

\* C26: an addComment that succeeds on a stored note g has added exactly one
\* note, with the payload's content and tags, and exactly one relation, of type
\* Comment, from that note to g; every note and every relation the call found
\* is as it was.
C26_AddCommentFrame ==
    \A t \in Threads :
        (Done(t, "add_comment") /\ result[t].db.ok) =>
            LET g == args[t].target_id
                id == result[t].db.value.note.id
                rid == result[t].db.value.relation.id
            IN /\ g \in DOMAIN pre[t].notes
               /\ id \notin DOMAIN pre[t].notes
               /\ DOMAIN notes = DOMAIN pre[t].notes \cup {id}
               /\ notes[id].content = args[t].content
               /\ FromJson(notes[id].tags).ok
               /\ FromJson(notes[id].tags).val = unwrap_or_default(args[t].tags)
               /\ \A n \in DOMAIN pre[t].notes : notes[n] = pre[t].notes[n]
               /\ rid \notin DOMAIN pre[t].note_relations
               /\ DOMAIN note_relations = DOMAIN pre[t].note_relations \cup {rid}
               /\ note_relations[rid].source_note_id = id
               /\ note_relations[rid].target_note_id = g
               /\ note_relations[rid].relation_type = "Comment"
               /\ \A r \in DOMAIN pre[t].note_relations :
                     note_relations[r] = pre[t].note_relations[r]
               /\ result[t].http = "Created"

\* A tagged comment has been added to a note that already had a comment.
C26_Witness ==
    \E t \in Threads :
        /\ Done(t, "add_comment")
        /\ result[t].db.ok
        /\ args[t].tags.some
        /\ \E r \in DOMAIN pre[t].note_relations :
              pre[t].note_relations[r].target_note_id = args[t].target_id
        /\ Cardinality(DOMAIN note_relations) = 2

\* The tags of the rows whose tags column is the JSON of a list of strings.
WellFormedTags(N) ==
    UNION {Elems(FromJson(N[id].tags).val) : id \in {n \in DOMAIN N : FromJson(N[n].tags).ok}}

\* C27: with a stored row whose tags column is not a list of strings, allTags
\* and detailedTags still succeed and list exactly the tags of the other,
\* well-formed rows.
C27_MalformedRowIsSkipped ==
    \A t \in Threads :
        /\ Done(t, "get_tags") => result[t].db = DbOk(WellFormedTags(notes))
        /\ Done(t, "get_detailed_tags") =>
              /\ result[t].db.ok
              /\ result[t].http = "Ok"
              /\ {e.name : e \in result[t].db.value} = WellFormedTags(notes)

\* C28: a delete of id removes the note id and the relations naming id and
\* nothing else: every other note the call found is stored with the same
\* content, tags and timestamps, the sources of comments on id and the ends of
\* relations with id among them, and every relation that does not name id is
\* stored unchanged.
C28_DeleteFrame ==
    \A t \in Threads :
        Done(t, "delete_note") =>
            LET id == args[t].note_id
            IN /\ DOMAIN notes = DOMAIN pre[t].notes \ {id}
               /\ \A n \in DOMAIN notes : notes[n] = pre[t].notes[n]
               /\ DOMAIN note_relations =
                     DOMAIN pre[t].note_relations \ Names(pre[t].note_relations, id)
               /\ \A r \in DOMAIN note_relations :
                     note_relations[r] = pre[t].note_relations[r]

\* A delete has removed a stored note while a relation that does not name it
\* stays.
C28_Witness ==
    \E t \in Threads :
        /\ Done(t, "delete_note")
        /\ args[t].note_id \in DOMAIN pre[t].notes
        /\ note_relations # EmptyTable
        /\ notes # EmptyTable

\* C29: the type string of every stored relation is one of Comment, Reference,
\* Link, so reading it never takes the fallback to Reference: a createRelation
\* stores and returns the type of its payload, an addComment stores Comment,
\* and every relation relationsForNote returns has the type its row was
\* written with.
C29_TypeReadBackAsWritten ==
    /\ \A r \in DOMAIN note_relations :
          /\ note_relations[r].relation_type \in RelationTypes
          /\ map_row_to_relation(r, note_relations[r]).value.relation_type
                = note_relations[r].relation_type
    /\ \A t \in Threads :
          /\ (Done(t, "create_relation") /\ result[t].db.ok) =>
                LET rid == result[t].db.value.id
                IN /\ result[t].db.value.relation_type = args[t].relation_type
                   /\ map_row_to_relation(rid, note_relations[rid]).value.relation_type
                         = args[t].relation_type
          /\ (Done(t, "add_comment") /\ result[t].db.ok) =>
                map_row_to_relation(result[t].db.value.relation.id,
                    note_relations[result[t].db.value.relation.id]).value.relation_type
                  = "Comment"
          /\ Done(t, "get_relations") =>
                /\ result[t].db.ok
                /\ \A i \in 1..Len(result[t].db.value) :
                      result[t].db.value[i].relation_type
                        = note_relations[result[t].db.value[i].id].relation_type

\* relationsForNote has returned a relation that createRelation wrote as Link.
C29_Witness ==
    \E t \in Threads :
        /\ Done(t, "get_relations")
        /\ Len(result[t].db.value) = 1
        /\ result[t].db.value[1].relation_type = "Link"

\* The positions of a db call at which it has not yet written.
BeforeWrite == {"create_note_insert", "get_note_query", "update_note_update",
                "delete_note_delete", "create_relation_source", "create_relation_target",
                "create_relation_insert", "add_comment_target", "add_comment_insert_note",
                "get_notes_query", "get_tags_query", "get_detailed_tags_query",
                "get_relations_query", "get_comments_query"}

\* C30: a request is inside its db call exactly while it holds the mutex, so at
\* most one db call is in progress; and no other request's statement falls
\* between the statements of a call: until its own first write the tables are
\* as the call found them, the endpoints createRelation has checked are still
\* stored when it inserts, and the row update re-reads is the row it wrote.
C30_OneCallAtATime ==
    /\ \A t \in Threads : pc[t] # "idle" <=> mutex = t
    /\ \A t, u \in Threads : (pc[t] # "idle" /\ pc[u] # "idle") => t = u
    /\ \A t \in Threads :
          /\ pc[t] \in BeforeWrite =>
                /\ notes = pre[t].notes
                /\ note_relations = pre[t].note_relations
          /\ pc[t] = "create_relation_insert" =>
                /\ local[t].source_exists /\ local[t].target_exists
                /\ args[t].note_id \in DOMAIN notes
                /\ args[t].target_id \in DOMAIN notes
          /\ pc[t] = "update_note_get" =>
                /\ args[t].note_id \in DOMAIN pre[t].notes
                /\ notes = [pre[t].notes EXCEPT ![args[t].note_id] =
                              UpdateSet(@, args[t].content, args[t].tags,
                                        local[t].updated_at)]

\* A createRelation stands between its existence checks and its insert, the
\* other requests waiting.
C30_Witness ==
    \E t \in Threads :
        /\ pc[t] = "create_relation_insert"
        /\ mutex = t
        /\ args[t].note_id # args[t].target_id
        /\ \A u \in Threads \ {t} : pc[u] = "idle"

====
